---- MODULE Spec2Model ----
(***************************************************************************)
(* Model of the background worker of the Open WebUI extension              *)
(* (background.js): the sliding-window rate limiter checkRateLimit, the    *)
(* chrome.storage.local record it persists, and the message handlers that  *)
(* call it before proxying a request to the backend.                       *)
(*                                                                         *)
(* JavaScript runs every handler on one thread; a handler is suspended at  *)
(* each await.  One action of the model is one synchronous segment of a    *)
(* handler: the code between two awaits, executed when the awaited         *)
(* promise settles.  chrome.storage.local gives no ordering guarantee      *)
(* between outstanding get/set calls, so their completions interleave      *)
(* freely.                                                                 *)
(***************************************************************************)
EXTENDS Integers, Sequences, FiniteSets, TLC

(***************************************************************************)
(* Bounds of the model.                                                    *)
(***************************************************************************)
MaxRequests == 2     \* requests received in one behaviour of Spec
MaxTicks == 1        \* milliseconds that pass in one behaviour of Spec
ExtraCalls == 2      \* calls the sequential caller of SpecSeq issues beyond
                     \* the limit of its action type

\* the requests in flight at the same time: two, each in its slot
Procs == {1, 2}

(***************************************************************************)
(* background.js:186-190                                                   *)
(***************************************************************************)
RATE_LIMITS ==
    [chatCompletion |-> [max |-> 10, window |-> 60000],
     fetchModels    |-> [max |-> 5,  window |-> 60000],
     general        |-> [max |-> 20, window |-> 60000]]

\* The action types handed to checkRateLimit.  "other" stands for any name
\* that is not a key of RATE_LIMITS.
Categories == {"chatCompletion", "fetchModels", "general", "other"}

\* Names that every JavaScript object inherits from Object.prototype
\* ("constructor", "toString", "__proto__", ...): obj[name] is a function or
\* an object, truthy, whether or not obj has an own key of that name.
Inherited == {"constructor"}

\* what RATE_LIMITS[name] and rateLimitData[name] evaluate to for an inherited
\* name: a value without max, window or filter
ObjectPrototypeMember == [max |-> "undefined", window |-> "undefined"]

\* background.js:195   const limit = RATE_LIMITS[actionType] || RATE_LIMITS.general
limit(actionType) ==
    IF actionType \in DOMAIN RATE_LIMITS THEN RATE_LIMITS[actionType]
    ELSE IF actionType \in Inherited THEN ObjectPrototypeMember
    ELSE RATE_LIMITS.general

\* mutant: nothing is pruned
filterRequests_noPrune(requests, now, lim) == requests

\* mutant: a request whose age is exactly the window is kept
filterRequests_inclusive(requests, now, lim) ==
    SelectSeq(requests, LAMBDA timestamp : now - timestamp <= lim.window)

\* background.js:205   requests.filter(timestamp => now - timestamp < limit.window)
filterRequests(requests, now, lim) ==
    SelectSeq(requests, LAMBDA timestamp : now - timestamp < lim.window)

\* mutant: the comparison is strict
limitExceeded_strict(requests, lim) == Len(requests) > lim.max

\* background.js:208   requests.length >= limit.max
limitExceeded(requests, lim) == Len(requests) >= lim.max

\* mutant: the wait is rounded down
ceilSeconds_floor(x) == x \div 1000

\* Math.ceil(x / 1000) on an integer x
ceilSeconds(x) == (x + 999) \div 1000

\* mutant: the wait is computed from the newest request
waitTime_newest(requests, now, lim) ==
    LET newestRequest == requests[Len(requests)]
    IN  ceilSeconds(lim.window - (now - newestRequest))

\* background.js:209-213   the wait of a rejected call, in seconds
waitTime(requests, now, lim) ==
    LET oldestRequest == requests[1]
    IN  ceilSeconds(lim.window - (now - oldestRequest))

\* stored.rateLimit || {} ; rateLimitData[actionType] || [] : an absent key
\* reads as the empty list
EmptyRateLimitData == [c \in Categories |-> << >>]

\* the result object of checkRateLimit; waitTime is 0 where the code leaves
\* it undefined ({allowed: true})
Allowed == [allowed |-> TRUE, waitTime |-> 0]
Rejected(w) == [allowed |-> FALSE, waitTime |-> w]
NoResult == [allowed |-> FALSE, waitTime |-> 0]

VARIABLES
    clock,      \* Date.now()
    storage,    \* chrome.storage.local
    proc,       \* the requests in flight, one record per slot
    admitted,   \* history: per action type, the `now` of every call that
                \* checkRateLimit admitted on the stored requests (line 224,
                \* not the catch block), in ascending order
    nreq,       \* requests received so far
    caller,     \* the sequential caller of SpecSeq
    runtimeId   \* chrome.runtime.id, the identity of the installation

vars == <<clock, storage, proc, admitted, nreq, caller, runtimeId>>

\* mutant: a rejected call records its attempt before it returns
decide_recordsRejected(rateLimitData, actionType, now) ==
    LET lim      == limit(actionType)
        requests == filterRequests(rateLimitData[actionType], now, lim)
    IN  [result        |-> IF limitExceeded(requests, lim)
                           THEN Rejected(waitTime(requests, now, lim))
                           ELSE Allowed,
         set           |-> TRUE,
         rateLimitData |->
             [rateLimitData EXCEPT ![actionType] = Append(requests, now)]]

\* mutant: an admitted call stores the pruned list without its own timestamp
decide_forgetsPush(rateLimitData, actionType, now) ==
    LET lim      == limit(actionType)
        requests == filterRequests(rateLimitData[actionType], now, lim)
    IN  IF limitExceeded(requests, lim)
        THEN [result        |-> Rejected(waitTime(requests, now, lim)),
              set           |-> FALSE,
              rateLimitData |-> rateLimitData]
        ELSE [result        |-> Allowed,
              set           |-> TRUE,
              rateLimitData |->
                  [rateLimitData EXCEPT ![actionType] = requests]]

\* background.js:199-222   the synchronous segment of checkRateLimit that runs
\* when storage.get resolves with `rateLimitData`: prune, decide, and on
\* admission build the object handed to storage.set (set = TRUE).  A rejected
\* call returns at line 211 and issues no set.
decide(rateLimitData, actionType, now) ==
    LET lim      == limit(actionType)
        requests == filterRequests(rateLimitData[actionType], now, lim)
    IN  IF limitExceeded(requests, lim)
        THEN [result        |-> Rejected(waitTime(requests, now, lim)),
              set           |-> FALSE,
              rateLimitData |-> rateLimitData]
        ELSE [result        |-> Allowed,
              set           |-> TRUE,
              rateLimitData |->
                  [rateLimitData EXCEPT ![actionType] = Append(requests, now)]]

\* background.js:148-167   isValidUrl on the abstract urls "http" (an http or
\* https url), "js" (another scheme or unparsable) and "none" (missing)
isValidUrl(url) == url = "http"

Urls == {"http", "js"}
Keys == {"none", "string", "object"}   \* absent, a string, a truthy non-string
Bodies == {"object", "none"}

noRequest == [url |-> "none", key |-> "none", body |-> "none"]

(***************************************************************************)
(* JavaScript values handed to and returned by encryptApiKey and            *)
(* decryptApiKey.  The text of a string is a sequence of runs [c, n]: the   *)
(* character c repeated n times.  A character is                            *)
(*   "a"  a letter or digit,                                                *)
(*   "="  the base64 padding character,                                     *)
(*   "-"  an ASCII character outside [A-Za-z0-9+/=],                        *)
(*   "S"  an unpaired surrogate (a code unit that is no character),         *)
(*   "R"  U+FFFD, the replacement character.                                *)
(* The string that btoa returns for the bytes `iv || ciphertext || tag` is  *)
(* kept as those bytes: form "base64" with the iv in front and the box      *)
(* that AES-GCM sealed (the key, the iv and the plaintext bytes it was      *)
(* made from); `tampered` tells that the ciphertext region was altered      *)
(* after encryption.                                                        *)
(***************************************************************************)
noBox == [id |-> "none", iv |-> 0, bytes |-> << >>]

NoValue ==
    [type |-> "undefined", form |-> "none", runs |-> << >>, iv |-> 0,
     box |-> noBox, tampered |-> FALSE]

ObjectValue == [NoValue EXCEPT !.type = "object"]

text(runs) == [NoValue EXCEPT !.type = "string", !.form = "runs", !.runs = runs]

\* history of one call of encryptApiKey or decryptApiKey
noVault ==
    [input      |-> NoValue,   \* the argument
     keyOk      |-> TRUE,      \* getEncryptionKey does not throw in this call
     id         |-> "none",    \* chrome.runtime.id during the call
     output     |-> NoValue,   \* the value returned
     threw      |-> FALSE,     \* the call threw to its caller
     keyDerived |-> FALSE]     \* getEncryptionKey was called

\* a message as the listeners of the worker see it: the channel it came on
\* (runtime.sendMessage or a port named "chat-stream"), its action ("none"
\* when the field is missing) and whether its sender has a tab with an id
noMessage == [channel |-> "none", action |-> "none", tab |-> TRUE]

idleProc ==
    [pc            |-> "idle",
     kind          |-> "none",
     actionType    |-> "none",
     request       |-> noRequest,
     now           |-> 0,
     rateLimitData |-> EmptyRateLimitData,
     result        |-> NoResult,
     checked       |-> FALSE,   \* history: checkRateLimit returned allowed
     persisted     |-> FALSE,   \* history: a set holding `now` was applied
     failed        |-> FALSE,   \* history: the catch block of the call ran
     decrypted     |-> FALSE,   \* history: decryptApiKey was invoked
     fetched       |-> FALSE,   \* history: fetch was issued
     replies       |-> << >>,   \* history: sendResponse / port.postMessage
     vault         |-> noVault,
     message       |-> noMessage,  \* history: the message just received
     port          |-> "open"]  \* "client": the requester has disconnected

\* slot p takes the next request
free(p) == proc[p].pc \in {"idle", "done"}

\* a reply to the requester: sendResponse(...) or port.postMessage(...)
\* ({error: `Rate limit exceeded. Please wait ${waitTime} seconds ...`},
\* {error: <any other text>}, {data}, {done: true})
rateLimitReply(w) == [type |-> "rate limit", waitTime |-> w]
errorReply == [type |-> "error", waitTime |-> 0]
dataReply == [type |-> "data", waitTime |-> 0]
doneReply == [type |-> "done", waitTime |-> 0]

\* background.js:193-198   checkRateLimit(actionType) is entered: `now` is
\* sampled and storage.get is issued
enterCheckRateLimit(r, actionType) ==
    [r EXCEPT !.pc = "get", !.actionType = actionType, !.now = clock]

\* the handler posts `reply` and is over: its locals are dropped, its replies
\* are kept.  port.postMessage throws on a port the other end has
\* disconnected: nothing is posted, and the postMessage of the catch blocks
\* (background.js:792, 800) throws again.
finish(r, reply) ==
    IF r.port = "client"
    THEN [idleProc EXCEPT !.pc = "done", !.fetched = r.fetched,
                          !.replies = r.replies, !.port = "client"]
    ELSE [idleProc EXCEPT !.pc = "done", !.fetched = r.fetched,
                          !.replies = Append(r.replies, reply)]

\* a request is received in slot p
accept(p, r) ==
    /\ free(p)
    /\ \A q \in Procs : q < p => ~free(q)
    /\ nreq < MaxRequests
    /\ nreq' = nreq + 1
    /\ proc' = [proc EXCEPT ![p] = r]
    /\ UNCHANGED <<clock, storage, admitted, caller, runtimeId>>

\* mutant: the rate check comes before the key is decrypted
ReceiveFetchModels_checksFirst(p, url, key) ==
    LET r == [idleProc EXCEPT !.kind = "fetchModels",
                              !.request = [url |-> url, key |-> key,
                                           body |-> "none"]]
    IN  accept(p,
          IF ~isValidUrl(url) THEN finish(r, errorReply)
          ELSE IF key = "object" THEN finish(r, errorReply)
          ELSE enterCheckRateLimit(r, "fetchModels"))

\* background.js:524-557   the fetchModels branch of the onMessage listener,
\* up to its first await: the slot of the request after it
fetchModels(url, key) ==
    LET r == [idleProc EXCEPT !.kind = "fetchModels",
                              !.request = [url |-> url, key |-> key,
                                           body |-> "none"]]
    IN  IF ~isValidUrl(url) THEN finish(r, errorReply)
        ELSE IF key = "object"
             THEN finish(r, errorReply)
        ELSE IF key = "string"
             THEN [r EXCEPT !.pc = "decrypt", !.decrypted = TRUE]
        ELSE enterCheckRateLimit(r, "fetchModels")

\* a fetchModels message from a tab is received
ReceiveFetchModels(p, url, key) == accept(p, fetchModels(url, key))

\* the body check and the fetch of createChat (background.js:651-671)
createChatFetch(r) ==
    IF r.request.body # "object"
    THEN finish(r, errorReply)
    ELSE [idleProc EXCEPT !.pc = "fetch", !.kind = r.kind, !.fetched = TRUE]

\* background.js:624-671   the createChat branch of the onMessage listener, up
\* to its first await
createChat(url, key, body) ==
    LET r == [idleProc EXCEPT !.kind = "createChat",
                              !.request = [url |-> url, key |-> key,
                                           body |-> body]]
    IN  IF ~isValidUrl(url) THEN finish(r, errorReply)
        ELSE IF key # "none"
             THEN [r EXCEPT !.pc = "decrypt", !.decrypted = TRUE]
        ELSE createChatFetch(r)

\* a createChat message from a tab is received
ReceiveCreateChat(p, url, key, body) == accept(p, createChat(url, key, body))

\* the body check and the rate check of fetchChatCompletion
\* (background.js:732-740)
chatCheckRateLimit(r) ==
    IF r.request.body # "object"
    THEN finish(r, errorReply)
    ELSE enterCheckRateLimit(r, "chatCompletion")

\* background.js:708-726   the fetchChatCompletion branch of the port
\* listener, up to its first await
fetchChatCompletion(url, key, body) ==
    LET r == [idleProc EXCEPT !.kind = "fetchChatCompletion",
                              !.request = [url |-> url, key |-> key,
                                           body |-> body]]
    IN  IF ~isValidUrl(url) THEN finish(r, errorReply)
        ELSE IF key # "string"
             THEN finish(r, errorReply)
        ELSE [r EXCEPT !.pc = "decrypt", !.decrypted = TRUE]

\* a fetchChatCompletion message is received on a chat-stream port
ReceiveFetchChatCompletion(p, url, key, body) ==
    accept(p, fetchChatCompletion(url, key, body))

\* checkRateLimit(actionType) called on its own
CallCheckRateLimit(p, actionType) ==
    accept(p, enterCheckRateLimit([idleProc EXCEPT !.kind = "check"],
                                  actionType))

\* the await of decryptApiKey resumes (background.js:543, 644, 726)
DecryptResolved(p) ==
    /\ proc[p].pc = "decrypt"
    /\ proc' = [proc EXCEPT ![p] =
          CASE @.kind = "fetchModels" -> enterCheckRateLimit(@, "fetchModels")
            [] @.kind = "createChat" -> createChatFetch(@)
            [] OTHER -> chatCheckRateLimit(@)]
    /\ UNCHANGED <<clock, storage, admitted, nreq, caller, runtimeId>>

\* `now` put into the ascending list `log`
logged(log, now) ==
    LET older == SelectSeq(log, LAMBDA t : t <= now)
        newer == SelectSeq(log, LAMBDA t : t > now)
    IN  older \o <<now>> \o newer

\* the history of admitted calls after the call of slot p returns `result`
admit(p, result) ==
    IF result.allowed
    THEN [admitted EXCEPT ![proc[p].actionType] = logged(@, proc[p].now)]
    ELSE admitted

\* mutant: the catch block denies the request
failOpen_failsClosed(p) ==
    /\ proc' = [proc EXCEPT ![p].pc = "ret",
                            ![p].result = Rejected(1),
                            ![p].failed = TRUE]
    /\ UNCHANGED <<clock, storage, admitted, nreq, caller, runtimeId>>

\* background.js:225-229   the catch block: log, return {allowed: true}
failOpen(p) ==
    /\ proc' = [proc EXCEPT ![p].pc = "ret",
                            ![p].result = Allowed,
                            ![p].failed = TRUE]
    /\ UNCHANGED <<clock, storage, admitted, nreq, caller, runtimeId>>

\* background.js:198-215   storage.get resolves.  For an inherited name
\* rateLimitData[actionType] || [] (line 202) is the inherited member, which has
\* no filter: line 205 throws a TypeError and the catch block runs.
StorageGetResolved(p) ==
    /\ proc[p].pc = "get"
    /\ IF proc[p].actionType \in Inherited
       THEN failOpen(p)
       ELSE /\ LET d == decide(storage.rateLimit, proc[p].actionType,
                               proc[p].now)
               IN  IF d.set
                   THEN /\ proc' = [proc EXCEPT
                                      ![p].pc = "set",
                                      ![p].rateLimitData = d.rateLimitData,
                                      ![p].result = d.result]
                        /\ UNCHANGED admitted
                   ELSE /\ proc' = [proc EXCEPT ![p].pc = "ret",
                                                ![p].result = d.result]
                        /\ admitted' = admit(p, d.result)
            /\ UNCHANGED <<clock, storage, nreq, caller, runtimeId>>

\* background.js:198   storage.get rejects
StorageGetRejected(p) ==
    /\ proc[p].pc = "get"
    /\ failOpen(p)

\* mutant: the write replaces the whole store
StorageSetResolved_replacesStore(p) ==
    /\ proc[p].pc = "set"
    /\ storage' = [rateLimit |-> proc[p].rateLimitData,
                   config |-> [url |-> "none", key |-> "none",
                               model |-> "none"]]
    /\ proc' = [proc EXCEPT
          ![p].pc = "ret",
          ![p].persisted =
              \E i \in DOMAIN storage'.rateLimit[proc[p].actionType] :
                  storage'.rateLimit[proc[p].actionType][i] = proc[p].now]
    /\ admitted' = admit(p, proc[p].result)
    /\ UNCHANGED <<clock, nreq, caller, runtimeId>>

\* background.js:222-224   storage.set resolves: the store holds the object
\* the call built, whatever was written since the call read it
StorageSetResolved(p) ==
    /\ proc[p].pc = "set"
    /\ storage' = [storage EXCEPT !.rateLimit = proc[p].rateLimitData]
    /\ proc' = [proc EXCEPT
          ![p].pc = "ret",
          ![p].persisted =
              \E i \in DOMAIN storage'.rateLimit[proc[p].actionType] :
                  storage'.rateLimit[proc[p].actionType][i] = proc[p].now]
    /\ admitted' = admit(p, proc[p].result)
    /\ UNCHANGED <<clock, nreq, caller, runtimeId>>

\* background.js:222   storage.set rejects
StorageSetRejected(p) ==
    /\ proc[p].pc = "set"
    /\ failOpen(p)

\* mutant: the return after the rate limit reply is missing
AfterCheckRateLimit_fallsThrough(p) ==
    /\ proc[p].pc = "ret"
    /\ LET r == proc[p]
       IN  proc' = [proc EXCEPT ![p] =
             IF r.kind = "check"
             THEN [idleProc EXCEPT !.pc = "done", !.kind = "check",
                                   !.actionType = r.actionType,
                                   !.now = r.now, !.result = r.result]
             ELSE [idleProc EXCEPT
                     !.pc = "fetch", !.kind = r.kind,
                     !.checked = r.result.allowed, !.fetched = TRUE,
                     !.replies = IF r.result.allowed THEN << >>
                                 ELSE <<rateLimitReply(r.result.waitTime)>>]]
    /\ UNCHANGED <<clock, storage, admitted, nreq, caller, runtimeId>>

\* the await of checkRateLimit resumes (background.js:551-567, 740-756); the
\* second isValidUrl (lines 561, 750) holds of every url that passed the first
AfterCheckRateLimit(p) ==
    /\ proc[p].pc = "ret"
    /\ LET r == proc[p]
       IN  proc' = [proc EXCEPT ![p] =
             IF r.kind = "check"
             THEN [idleProc EXCEPT !.pc = "done", !.kind = "check",
                                   !.actionType = r.actionType,
                                   !.now = r.now, !.result = r.result]
             ELSE IF ~r.result.allowed
                  THEN finish(r, rateLimitReply(r.result.waitTime))
             ELSE [idleProc EXCEPT !.pc = "fetch", !.kind = r.kind,
                                   !.checked = TRUE, !.fetched = TRUE]]
    /\ UNCHANGED <<clock, storage, admitted, nreq, caller, runtimeId>>

FetchOutcomes == {"ok", "http error", "network error"}

\* fetch settles (background.js:567-588, 664-686, 764-802)
FetchSettled(p, outcome) ==
    /\ proc[p].pc = "fetch"
    /\ proc' = [proc EXCEPT ![p] =
          IF outcome # "ok" THEN finish(@, errorReply)
          ELSE IF @.kind = "fetchChatCompletion" THEN [@ EXCEPT !.pc = "stream"]
          ELSE finish(@, dataReply)]
    /\ UNCHANGED <<clock, storage, admitted, nreq, caller, runtimeId>>

\* background.js:779-786   the response body of a chat completion ends
StreamDone(p) ==
    /\ proc[p].pc = "stream"
    /\ proc' = [proc EXCEPT ![p] = finish(@, doneReply)]
    /\ UNCHANGED <<clock, storage, admitted, nreq, caller, runtimeId>>

\* the worker of Spec starts right after the last of the recorded calls
InitialClock == RATE_LIMITS.chatCompletion.max

\* a millisecond passes
Tick ==
    /\ clock < InitialClock + MaxTicks
    /\ clock' = clock + 1
    /\ UNCHANGED <<storage, proc, admitted, nreq, caller, runtimeId>>

\* a list of k calls, one per millisecond from 0 on
Burst(k) == [i \in 1..k |-> i - 1]

\* the store the worker of Spec starts from: the rate limit record persists
\* across restarts (background.js:183); fetchModels is one call short of its
\* limit, chatCompletion is at its limit, nothing else was ever called
InitialRateLimitData ==
    [EmptyRateLimitData EXCEPT
        !.fetchModels = Burst(RATE_LIMITS.fetchModels.max - 1),
        !.chatCompletion = Burst(RATE_LIMITS.chatCompletion.max)]

\* `secret` is the API key the user typed into the configuration form
noCaller ==
    [actionType |-> "none", gap |-> 0, rejected |-> NoResult, at |-> 0,
     restarted |-> FALSE, secret |-> NoValue]

Init ==
    /\ clock = InitialClock
    /\ storage = [rateLimit |-> InitialRateLimitData]
    /\ admitted = InitialRateLimitData
    /\ proc = [p \in Procs |-> idleProc]
    /\ nreq = 0
    /\ runtimeId = "A"
    /\ caller = noCaller

Next ==
    \/ \E p \in Procs, url \in Urls, key \in Keys :
          ReceiveFetchModels(p, url, key)
    \/ \E p \in Procs, url \in Urls, key \in Keys, body \in Bodies :
          ReceiveCreateChat(p, url, key, body)
    \/ \E p \in Procs, url \in Urls, key \in Keys, body \in Bodies :
          ReceiveFetchChatCompletion(p, url, key, body)
    \/ \E p \in Procs, actionType \in Categories :
          CallCheckRateLimit(p, actionType)
    \/ \E p \in Procs : DecryptResolved(p)
    \/ \E p \in Procs : StorageGetResolved(p)
    \/ \E p \in Procs : StorageGetRejected(p)
    \/ \E p \in Procs : StorageSetResolved(p)
    \/ \E p \in Procs : StorageSetRejected(p)
    \/ \E p \in Procs : AfterCheckRateLimit(p)
    \/ \E p \in Procs, outcome \in FetchOutcomes : FetchSettled(p, outcome)
    \/ \E p \in Procs : StreamDone(p)
    \/ Tick

Spec == Init /\ [][Next]_vars

(***************************************************************************)
(* SpecSeq: a fresh installation (empty store) and one caller that calls   *)
(* checkRateLimit for one action type, one call after the other, with      *)
(* storage that works.  The caller lets `gap` milliseconds pass between    *)
(* two calls; after a rejection it may instead wait the waitTime it was    *)
(* given.  `rejected` and `at` remember the result and the `now` of the    *)
(* previous call when that call was rejected; `restarted` tells that the   *)
(* worker was restarted since the previous call.                           *)
(***************************************************************************)
Gaps == {0, 1, 1000, 7000, 59999, 60000}

InitSeq ==
    /\ clock = 0
    /\ storage = [rateLimit |-> EmptyRateLimitData]
    /\ admitted = EmptyRateLimitData
    /\ proc = [p \in Procs |-> idleProc]
    /\ nreq = 0
    /\ runtimeId = "A"
    /\ \E c \in Categories, g \in Gaps :
          caller = [noCaller EXCEPT !.actionType = c, !.gap = g]

SeqCall ==
    /\ proc[1].pc = "idle"
    /\ nreq < limit(caller.actionType).max + ExtraCalls
    /\ nreq' = nreq + 1
    /\ proc' = [proc EXCEPT ![1] =
          enterCheckRateLimit([idleProc EXCEPT !.kind = "check"],
                              caller.actionType)]
    /\ UNCHANGED <<clock, storage, admitted, caller, runtimeId>>

\* the caller has its result and lets time pass
SeqDelay(d) ==
    /\ proc[1].pc = "done"
    /\ \/ d = caller.gap
       \/ /\ ~proc[1].result.allowed
          /\ d \in {1000 * proc[1].result.waitTime,
                    1000 * proc[1].result.waitTime + caller.gap}
    /\ clock' = clock + d
    /\ caller' = [caller EXCEPT
          !.rejected = IF proc[1].result.allowed THEN NoResult
                       ELSE proc[1].result,
          !.at = IF proc[1].result.allowed THEN 0 ELSE proc[1].now,
          !.restarted = FALSE]
    /\ proc' = [proc EXCEPT ![1] = idleProc]
    /\ UNCHANGED <<storage, admitted, nreq, runtimeId>>

\* the caller has its result, its action type is full, and it waits until one
\* millisecond after the oldest stored request has left the window
SeqSlide ==
    /\ proc[1].pc = "done"
    /\ LET c == caller.actionType
           s == storage.rateLimit[c]
       IN  /\ Len(s) = limit(c).max
           /\ s[1] + limit(c).window + 1 > clock
           /\ clock' = s[1] + limit(c).window + 1
    /\ caller' = [caller EXCEPT
          !.rejected = IF proc[1].result.allowed THEN NoResult
                       ELSE proc[1].result,
          !.at = IF proc[1].result.allowed THEN 0 ELSE proc[1].now,
          !.restarted = FALSE]
    /\ proc' = [proc EXCEPT ![1] = idleProc]
    /\ UNCHANGED <<storage, admitted, nreq, runtimeId>>

\* mutant: the restart starts from an empty rate limit record
SeqRestart_clearsStore ==
    /\ proc[1].pc = "idle"
    /\ nreq > 0
    /\ ~caller.restarted
    /\ caller' = [caller EXCEPT !.restarted = TRUE]
    /\ storage' = [storage EXCEPT !.rateLimit = EmptyRateLimitData]
    /\ UNCHANGED <<clock, proc, admitted, nreq, runtimeId>>

\* the browser stops the worker between two calls and starts it again: the
\* worker keeps nothing about the rate limits in memory (background.js:176-190
\* are constants), chrome.storage.local is kept (background.js:183)
SeqRestart ==
    /\ proc[1].pc = "idle"
    /\ nreq > 0
    /\ ~caller.restarted
    /\ caller' = [caller EXCEPT !.restarted = TRUE]
    /\ UNCHANGED <<clock, storage, proc, admitted, nreq, runtimeId>>

Delays == Gaps \cup {1000 * w + g : w \in 1..61, g \in Gaps \cup {0}}

NextSeq ==
    \/ SeqCall
    \/ StorageGetResolved(1)
    \/ StorageSetResolved(1)
    \/ AfterCheckRateLimit(1)
    \/ \E d \in Delays : SeqDelay(d)
    \/ SeqSlide
    \/ SeqRestart

SpecSeq == InitSeq /\ [][NextSeq]_vars

(***************************************************************************)
(* SpecNames: the sequential caller of SpecSeq with an action type that is *)
(* not a key of RATE_LIMITS: "other", or a name inherited from              *)
(* Object.prototype.                                                       *)
(***************************************************************************)
NameGaps == {0, 1000}

InitNames ==
    /\ clock = 0
    /\ storage = [rateLimit |-> EmptyRateLimitData]
    /\ admitted = EmptyRateLimitData
    /\ proc = [p \in Procs |-> idleProc]
    /\ nreq = 0
    /\ runtimeId = "A"
    /\ \E c \in {"other"} \cup Inherited, g \in NameGaps :
          caller = [noCaller EXCEPT !.actionType = c, !.gap = g]

NamesCall ==
    /\ proc[1].pc = "idle"
    /\ nreq < RATE_LIMITS.general.max + ExtraCalls
    /\ nreq' = nreq + 1
    /\ proc' = [proc EXCEPT ![1] =
          enterCheckRateLimit([idleProc EXCEPT !.kind = "check"],
                              caller.actionType)]
    /\ UNCHANGED <<clock, storage, admitted, caller, runtimeId>>

NextNames ==
    \/ NamesCall
    \/ StorageGetResolved(1)
    \/ StorageSetResolved(1)
    \/ AfterCheckRateLimit(1)
    \/ \E d \in Delays : SeqDelay(d)

SpecNames == InitNames /\ [][NextNames]_vars

(***************************************************************************)
(* SpecStore: the configuration form of the search component                *)
(* (SpotlightSearch.svelte) and the rate limiter work on the same           *)
(* chrome.storage.local.  The store holds the keys url, key and model (the  *)
(* field `config`) next to rateLimit.                                       *)
(***************************************************************************)
\* no configuration is stored: the keys url, key and model are absent
noConfig == [url |-> "none", key |-> "none", model |-> "none"]

encryptedReply == [type |-> "encrypted", waitTime |-> 0]

\* SpotlightSearch.svelte:79-116   initHandler with a valid url, key and model,
\* up to its await of the encryptApiKey message (background.js:591-601)
initHandler(p) ==
    accept(p, [idleProc EXCEPT
                 !.pc = "encrypt", !.kind = "initHandler",
                 !.request = [url |-> "http", key |-> "string",
                              body |-> "none"]])

EncryptOutcomes == {"encrypted", "error"}

\* SpotlightSearch.svelte:118-134   the answer to encryptApiKey arrives and
\* storage.set({url, key, model}) is issued: with the encrypted key, or with
\* the key as typed when the answer is {error}
EncryptResolved(p, outcome) ==
    /\ proc[p].pc = "encrypt"
    /\ proc' = [proc EXCEPT
          ![p].pc = "save",
          ![p].request.key = IF outcome = "error" THEN "plain"
                             ELSE "encrypted",
          ![p].replies = Append(@, IF outcome = "error" THEN errorReply
                                   ELSE encryptedReply)]
    /\ UNCHANGED <<clock, storage, admitted, nreq, caller, runtimeId>>

\* the configuration that the initHandler of slot p stores
savedConfig(p) ==
    [url |-> proc[p].request.url, key |-> proc[p].request.key, model |-> "m"]

\* SpotlightSearch.svelte:122-134   storage.set({url, key, model}) resolves
ConfigSetResolved(p) ==
    /\ proc[p].pc = "save"
    /\ storage' = [storage EXCEPT !.config = savedConfig(p)]
    /\ proc' = [proc EXCEPT ![p] =
          [idleProc EXCEPT !.pc = "done", !.replies = proc[p].replies]]
    /\ UNCHANGED <<clock, admitted, nreq, caller, runtimeId>>

\* SpotlightSearch.svelte:33-50   resetConfig: chrome.storage.local.clear()
\* removes every key of the store, rateLimit included
resetConfig ==
    /\ nreq < MaxRequests
    /\ nreq' = nreq + 1
    /\ storage' = [rateLimit |-> EmptyRateLimitData, config |-> noConfig]
    /\ UNCHANGED <<clock, proc, admitted, caller, runtimeId>>

InitStore ==
    /\ clock = InitialClock
    /\ storage = [rateLimit |-> InitialRateLimitData, config |-> noConfig]
    /\ admitted = InitialRateLimitData
    /\ proc = [p \in Procs |-> idleProc]
    /\ nreq = 0
    /\ runtimeId = "A"
    /\ caller = noCaller

NextStore ==
    \/ \E p \in Procs : initHandler(p)
    \/ \E p \in Procs, outcome \in EncryptOutcomes : EncryptResolved(p, outcome)
    \/ \E p \in Procs : ConfigSetResolved(p)
    \/ resetConfig
    \/ \E p \in Procs, actionType \in Categories :
          CallCheckRateLimit(p, actionType)
    \/ \E p \in Procs : StorageGetResolved(p)
    \/ \E p \in Procs : StorageSetResolved(p)
    \/ \E p \in Procs : AfterCheckRateLimit(p)
    \/ Tick

SpecStore == InitStore /\ [][NextStore]_vars

(***************************************************************************)
(* SpecVault: encryptApiKey and decryptApiKey (background.js:16-138) and   *)
(* their message handlers (background.js:591-612).  The search component   *)
(* stores the encrypted key and hands the stored key back for decryption.  *)
(***************************************************************************)
MinEncryptedLength == 20        \* background.js:102
IvLength == 12                  \* background.js:69, 113
TagLength == 16                 \* AES-GCM appends a 128 bit tag
\* the longest argument list the engine accepts in
\* String.fromCharCode(...combined) (background.js:85); engine dependent
MaxSpreadArguments == 100000

CharClasses == {"a", "=", "-", "S"}

\* background.js:102   /^[A-Za-z0-9+/=]+$/
Base64Alphabet == {"a", "="}

RunLengths == {1, MinEncryptedLength - 1, MinEncryptedLength}

Runs == [c : CharClasses, n : RunLengths]

\* the texts handed to the two functions: the empty string, c^n, a^n d, and
\* one text longer than the engine's argument list
Texts ==
    {<< >>}
        \cup {<<r>> : r \in Runs}
        \cup {<<[c |-> "a", n |-> k], [c |-> d, n |-> 1]>> :
                 k \in RunLengths \ {1}, d \in CharClasses}
        \cup {<<[c |-> "a", n |-> MaxSpreadArguments]>>}

VaultInputs == {text(t) : t \in Texts} \cup {NoValue, ObjectValue}

\* the nonces crypto.getRandomValues may produce (background.js:69)
IVs == {1, 2}

\* the number of UTF-16 code units of a text
RECURSIVE units(_)
units(runs) == IF runs = << >> THEN 0 ELSE runs[1].n + units(Tail(runs))

\* TextEncoder.encode (background.js:65-66): the string is converted to scalar
\* values, every unpaired surrogate becoming U+FFFD, and written as UTF-8.
\* UTF-8 is one-to-one on scalar values: the bytes are kept as the scalar
\* values they encode.
encode(runs) ==
    [i \in DOMAIN runs |->
        IF runs[i].c = "S" THEN [c |-> "R", n |-> runs[i].n] ELSE runs[i]]

\* the bytes TextEncoder.encode gives for the string x (background.js:65-66).
\* The string btoa returned for an encryption is ASCII: its bytes are its
\* characters, kept as one run "E" that holds the encryption.
utf8(x) ==
    IF x.form = "base64"
    THEN <<[c |-> "E", n |-> 1, iv |-> x.iv, box |-> x.box,
            tampered |-> x.tampered]>>
    ELSE encode(x.runs)

\* TextDecoder.decode of well-formed UTF-8 (background.js:126-127)
decode(bytes) ==
    IF bytes # << >> /\ bytes[1].c = "E"
    THEN [NoValue EXCEPT !.type = "string", !.form = "base64",
                         !.iv = bytes[1].iv, !.box = bytes[1].box,
                         !.tampered = bytes[1].tampered]
    ELSE text(bytes)

\* the number of UTF-8 bytes: U+FFFD takes 3, an ASCII character 1, the
\* string of an encryption 4 for every 3 bytes of iv, ciphertext and tag
RECURSIVE byteLength(_)
byteLength(bytes) ==
    IF bytes = << >> THEN 0
    ELSE IF bytes[1].c = "E"
    THEN 4 * ((IvLength + byteLength(bytes[1].box.bytes) + TagLength + 2)
                 \div 3)
            + byteLength(Tail(bytes))
    ELSE (IF bytes[1].c = "R" THEN 3 ELSE 1) * bytes[1].n
            + byteLength(Tail(bytes))

\* x.length of a string; btoa writes 4 characters for every 3 bytes
length(x) ==
    IF x.form = "runs" THEN units(x.runs)
    ELSE 4 * ((IvLength + byteLength(x.box.bytes) + TagLength + 2) \div 3)

\* background.js:102   /^[A-Za-z0-9+/=]+$/.test(x)
matchesBase64(x) ==
    IF x.form = "runs"
    THEN x.runs # << >> /\ \A i \in DOMAIN x.runs : x.runs[i].c \in Base64Alphabet
    ELSE TRUE

\* !x
falsy(x) ==
    x.type = "undefined" \/ (x.type = "string" /\ x.form = "runs" /\ x.runs = << >>)

\* background.js:16-55   getEncryptionKey: PBKDF2 over chrome.runtime.id and
\* constant salts; `ok` is false when crypto.subtle rejects
getEncryptionKey(id, ok) == [threw |-> ~ok, key |-> id]

\* background.js:110   atob(x) of a text over the base64 alphabet: up to two
\* "=" are taken off the end when the length is a multiple of 4; it throws
\* when a "=" is left or one character is left over.  The bytes of a text that
\* no encryption produced are garbage.
atob(x) ==
    IF x.form = "base64"
    THEN [threw |-> FALSE, garbage |-> FALSE, n |-> 0,
          iv |-> x.iv, box |-> x.box, tampered |-> x.tampered]
    ELSE LET runs    == x.runs
             last    == runs[Len(runs)]
             equals  == units(SelectSeq(runs, LAMBDA r : r.c = "="))
             padding == IF units(runs) % 4 = 0 /\ last.c = "="
                        THEN (IF equals >= 2 /\ last.n >= 2 THEN 2 ELSE 1)
                        ELSE 0
             body    == units(runs) - padding
         IN  [threw |-> equals > padding \/ body % 4 = 1,
              garbage |-> TRUE, n |-> (body * 6) \div 8,
              iv |-> 0, box |-> noBox, tampered |-> FALSE]

\* background.js:113-127   crypto.subtle.decrypt with the first 12 bytes as
\* iv: AES-GCM returns the plaintext bytes when the rest is what was sealed
\* under this key and this iv, unaltered; it throws otherwise
aesGcmDecrypt(key, combined) ==
    IF ~combined.garbage /\ ~combined.tampered
          /\ combined.box.id = key /\ combined.box.iv = combined.iv
    THEN [threw |-> FALSE, bytes |-> combined.box.bytes]
    ELSE [threw |-> TRUE, bytes |-> << >>]

\* mutant: the iv is not put in front of the ciphertext
encryptApiKey_otherIv(apiKey, id, keyOk, iv) ==
    IF falsy(apiKey) \/ apiKey.type # "string"
    THEN [threw |-> TRUE, value |-> NoValue, keyDerived |-> FALSE]
    ELSE IF getEncryptionKey(id, keyOk).threw
    THEN [threw |-> TRUE, value |-> NoValue, keyDerived |-> TRUE]
    ELSE LET data == utf8(apiKey)
         IN  IF IvLength + byteLength(data) + TagLength > MaxSpreadArguments
             THEN [threw |-> TRUE, value |-> NoValue, keyDerived |-> TRUE]
             ELSE [threw |-> FALSE, keyDerived |-> TRUE,
                   value |-> [NoValue EXCEPT
                     !.type = "string", !.form = "base64", !.iv = 0,
                     !.box = [id |-> getEncryptionKey(id, keyOk).key,
                              iv |-> iv, bytes |-> data]]]

\* mutant: the iv is a constant of the module
encryptApiKey_fixedIv(apiKey, id, keyOk, iv) ==
    IF falsy(apiKey) \/ apiKey.type # "string"
    THEN [threw |-> TRUE, value |-> NoValue, keyDerived |-> FALSE]
    ELSE IF getEncryptionKey(id, keyOk).threw
    THEN [threw |-> TRUE, value |-> NoValue, keyDerived |-> TRUE]
    ELSE LET data == utf8(apiKey)
         IN  IF IvLength + byteLength(data) + TagLength > MaxSpreadArguments
             THEN [threw |-> TRUE, value |-> NoValue, keyDerived |-> TRUE]
             ELSE [threw |-> FALSE, keyDerived |-> TRUE,
                   value |-> [NoValue EXCEPT
                     !.type = "string", !.form = "base64", !.iv = 1,
                     !.box = [id |-> getEncryptionKey(id, keyOk).key,
                              iv |-> 1, bytes |-> data]]]

\* mutant: a failed key derivation is logged and not rethrown
encryptApiKey_swallows(apiKey, id, keyOk, iv) ==
    IF falsy(apiKey) \/ apiKey.type # "string"
    THEN [threw |-> TRUE, value |-> NoValue, keyDerived |-> FALSE]
    ELSE IF getEncryptionKey(id, keyOk).threw
    THEN [threw |-> FALSE, value |-> NoValue, keyDerived |-> TRUE]
    ELSE LET data == utf8(apiKey)
         IN  IF IvLength + byteLength(data) + TagLength > MaxSpreadArguments
             THEN [threw |-> TRUE, value |-> NoValue, keyDerived |-> TRUE]
             ELSE [threw |-> FALSE, keyDerived |-> TRUE,
                   value |-> [NoValue EXCEPT
                     !.type = "string", !.form = "base64", !.iv = iv,
                     !.box = [id |-> getEncryptionKey(id, keyOk).key,
                              iv |-> iv, bytes |-> data]]]

\* background.js:58-90   encryptApiKey: every exception is rethrown (line 88)
encryptApiKey(apiKey, id, keyOk, iv) ==
    IF falsy(apiKey) \/ apiKey.type # "string"
    THEN [threw |-> TRUE, value |-> NoValue, keyDerived |-> FALSE]
    ELSE IF getEncryptionKey(id, keyOk).threw
    THEN [threw |-> TRUE, value |-> NoValue, keyDerived |-> TRUE]
    ELSE LET data == utf8(apiKey)
         IN  IF IvLength + byteLength(data) + TagLength > MaxSpreadArguments
             THEN [threw |-> TRUE, value |-> NoValue, keyDerived |-> TRUE]
             ELSE [threw |-> FALSE, keyDerived |-> TRUE,
                   value |-> [NoValue EXCEPT
                     !.type = "string", !.form = "base64", !.iv = iv,
                     !.box = [id |-> getEncryptionKey(id, keyOk).key,
                              iv |-> iv, bytes |-> data]]]

\* mutant: only the length is looked at
looksUnencrypted_lengthOnly(x) == length(x) < MinEncryptedLength

\* background.js:102   the legacy test
looksUnencrypted(x) == length(x) < MinEncryptedLength \/ ~matchesBase64(x)

\* mutant: the inner catch returns nothing
onDecryptError_returnsNothing(x) == NoValue

\* background.js:128-132   the inner catch: return encryptedApiKey
onDecryptError(x) == x

\* background.js:95-133   the try block of decryptApiKey
tryDecrypt(x, id, keyOk) ==
    IF falsy(x) \/ x.type # "string"
    THEN [threw |-> TRUE, value |-> NoValue, keyDerived |-> FALSE]
    ELSE IF looksUnencrypted(x)
    THEN [threw |-> FALSE, value |-> x, keyDerived |-> FALSE]
    ELSE IF getEncryptionKey(id, keyOk).threw
    THEN [threw |-> TRUE, value |-> NoValue, keyDerived |-> TRUE]
    ELSE LET combined == atob(x)
         IN  IF combined.threw
             THEN [threw |-> TRUE, value |-> NoValue, keyDerived |-> TRUE]
             ELSE LET d == aesGcmDecrypt(getEncryptionKey(id, keyOk).key,
                                         combined)
                  IN  [threw |-> FALSE, keyDerived |-> TRUE,
                       value |-> IF d.threw THEN onDecryptError(x)
                                 ELSE decode(d.bytes)]

\* mutant: the outer catch rethrows, as the one of encryptApiKey does
decryptApiKey_rethrows(x, id, keyOk) == tryDecrypt(x, id, keyOk)

\* background.js:93-138   decryptApiKey: the outer catch (134-137) returns
\* the argument
decryptApiKey(x, id, keyOk) ==
    LET t == tryDecrypt(x, id, keyOk)
    IN  IF t.threw
        THEN [threw |-> FALSE, value |-> x, keyDerived |-> t.keyDerived]
        ELSE t

decryptedReply == [type |-> "decrypted", waitTime |-> 0]

\* background.js:591-595   the encryptApiKey branch of the onMessage listener,
\* up to its await
encryptApiKeyRequest(apiKey, keyOk) ==
    [idleProc EXCEPT
        !.pc = "encryptApiKey", !.kind = "encryptApiKey",
        !.vault = [noVault EXCEPT !.input = apiKey, !.keyOk = keyOk]]

\* an encryptApiKey message from a tab is received
ReceiveEncryptApiKey(p, apiKey, keyOk) ==
    accept(p, encryptApiKeyRequest(apiKey, keyOk))

\* background.js:595-599   encryptApiKey settles: {encrypted} or {error}
EncryptApiKeySettled(p, iv) ==
    /\ proc[p].pc = "encryptApiKey"
    /\ LET v == proc[p].vault
           e == encryptApiKey(v.input, runtimeId, v.keyOk, iv)
       IN  proc' = [proc EXCEPT ![p] =
             [idleProc EXCEPT
                !.pc = "done", !.kind = "encryptApiKey",
                !.vault = [v EXCEPT !.output = e.value, !.threw = e.threw,
                                    !.keyDerived = e.keyDerived,
                                    !.id = runtimeId],
                !.replies = <<IF e.threw THEN errorReply
                              ELSE encryptedReply>>]]
    /\ UNCHANGED <<clock, storage, admitted, nreq, caller, runtimeId>>

\* SpotlightSearch.svelte:118-134   initHandler stores what encryptApiKey
\* answered: the encrypted key, or the typed key when the answer is {error}
StoreKey(p) ==
    /\ proc[p].pc = "done"
    /\ proc[p].kind = "encryptApiKey"
    /\ proc[p].vault.input.type = "string"
    /\ ~falsy(proc[p].vault.input)
    /\ LET v == proc[p].vault
           k == IF v.threw THEN v.input ELSE v.output
       IN  /\ storage.config.key # k
           /\ storage' = [storage EXCEPT
                 !.config = [url |-> "http", key |-> k, model |-> "m"]]
    /\ UNCHANGED <<clock, proc, admitted, nreq, caller, runtimeId>>

\* the ciphertext region of the stored key is altered
Tamper ==
    /\ storage.config.key.form = "base64"
    /\ ~storage.config.key.tampered
    /\ storage' = [storage EXCEPT !.config.key.tampered = TRUE]
    /\ UNCHANGED <<clock, proc, admitted, nreq, caller, runtimeId>>

\* the extension runs under another id (background.js:19)
ChangeIdentity ==
    /\ runtimeId = "A"
    /\ runtimeId' = "B"
    /\ UNCHANGED <<clock, storage, proc, admitted, nreq, caller>>

\* background.js:602-606   the decryptApiKey branch of the onMessage listener,
\* up to its await
decryptApiKeyRequest(encryptedApiKey, keyOk) ==
    [idleProc EXCEPT
        !.pc = "decryptApiKey", !.kind = "decryptApiKey",
        !.vault = [noVault EXCEPT !.input = encryptedApiKey, !.keyOk = keyOk]]

\* a decryptApiKey message from a tab is received
ReceiveDecryptApiKey(p, encryptedApiKey, keyOk) ==
    accept(p, decryptApiKeyRequest(encryptedApiKey, keyOk))

\* background.js:606-610   decryptApiKey settles: {decrypted} or {error}
DecryptApiKeySettled(p) ==
    /\ proc[p].pc = "decryptApiKey"
    /\ LET v == proc[p].vault
           d == decryptApiKey(v.input, runtimeId, v.keyOk)
       IN  proc' = [proc EXCEPT ![p] =
             [idleProc EXCEPT
                !.pc = "done", !.kind = "decryptApiKey",
                !.vault = [v EXCEPT !.output = d.value, !.threw = d.threw,
                                    !.keyDerived = d.keyDerived,
                                    !.id = runtimeId],
                !.replies = <<IF d.threw THEN errorReply
                              ELSE decryptedReply>>]]
    /\ UNCHANGED <<clock, storage, admitted, nreq, caller, runtimeId>>

\* what chrome.runtime.id reads as when the worker starts (background.js:19):
\* the id of the installation, or undefined where the platform supplies none;
\* line 23 then builds the password from the string "undefined" and the salt,
\* and nothing throws
InitialIdentities == {"A", "undefined"}

InitVault ==
    /\ clock = 0
    /\ storage = [rateLimit |-> EmptyRateLimitData,
                  config |-> [url |-> "none", key |-> NoValue,
                              model |-> "none"]]
    /\ admitted = EmptyRateLimitData
    /\ proc = [p \in Procs |-> idleProc]
    /\ nreq = 0
    /\ runtimeId \in InitialIdentities
    /\ caller = noCaller

\* the component awaits every answer before its next message: the vault
\* handles one request at a time
VaultProcs == {1}

NextVault ==
    \/ \E p \in VaultProcs, apiKey \in VaultInputs, keyOk \in BOOLEAN :
          ReceiveEncryptApiKey(p, apiKey, keyOk)
    \/ \E p \in VaultProcs, iv \in IVs : EncryptApiKeySettled(p, iv)
    \/ \E p \in VaultProcs : StoreKey(p)
    \/ Tamper
    \/ ChangeIdentity
    \/ \E p \in VaultProcs, keyOk \in BOOLEAN :
          \E x \in VaultInputs \cup {storage.config.key} :
              ReceiveDecryptApiKey(p, x, keyOk)
    \/ \E p \in VaultProcs : DecryptApiKeySettled(p)

SpecVault == InitVault /\ [][NextVault]_vars

(***************************************************************************)
(* SpecGate: the two listeners of the worker.  One-shot messages           *)
(* (chrome.runtime.onMessage, background.js:431-694) are checked against   *)
(* ALLOWED_ACTIONS and their sender before the branch of their action      *)
(* runs; messages on a port named "chat-stream" (chrome.runtime.onConnect, *)
(* background.js:705-806) go to the listener the port was given.           *)
(***************************************************************************)
\* background.js:176
ALLOWED_ACTIONS ==
    {"getSelection", "writeText", "fetchModels", "toggleSearch",
     "encryptApiKey", "decryptApiKey", "createChat", "extractPageContent",
     "summarizePage"}

\* the actions of the messages sent to the worker: none, one that is in no
\* list ("getConfig"), the one the port listener serves, and those of
\* ALLOWED_ACTIONS whose branches the model holds
MessageActions ==
    {"none", "getConfig", "fetchChatCompletion", "getSelection",
     "fetchModels", "encryptApiKey", "decryptApiKey", "createChat"}

\* the fields of a message besides its action are those of a well-formed
\* request
Requests ==
    [action : MessageActions, url : {"http"}, key : {"string"},
     body : {"object"},
     apiKey : {text(<<[c |-> "a", n |-> MinEncryptedLength]>>)}]

\* background.js:449-461   the getSelection branch: executeScript in the tab
\* of the sender
getSelection == [idleProc EXCEPT !.pc = "script", !.kind = "getSelection"]

\* background.js:457-460   executeScript resolves: sendResponse({data})
ScriptDone(p) ==
    /\ proc[p].pc = "script"
    /\ proc' = [proc EXCEPT ![p] =
          [idleProc EXCEPT !.pc = "done", !.kind = proc[p].kind,
                           !.replies = <<dataReply>>]]
    /\ UNCHANGED <<clock, storage, admitted, nreq, caller, runtimeId>>

\* background.js:431-447   the onMessage listener: the action is checked
\* against ALLOWED_ACTIONS (433), then the sender (440), then the branch of
\* the action runs up to its first await; `tab` tells that sender.tab.id is
\* there
onMessage(p, request, tab) ==
    LET m == [channel |-> "message", action |-> request.action, tab |-> tab]
        refused == [finish(idleProc, errorReply) EXCEPT !.message = m]
        branch ==
          CASE request.action = "getSelection" -> getSelection
            [] request.action = "fetchModels" ->
                  fetchModels(request.url, request.key)
            [] request.action = "encryptApiKey" ->
                  encryptApiKeyRequest(request.apiKey, TRUE)
            [] request.action = "decryptApiKey" ->
                  decryptApiKeyRequest(request.apiKey, TRUE)
            [] request.action = "createChat" ->
                  createChat(request.url, request.key, request.body)
            [] OTHER -> refused
    IN  accept(p,
          IF request.action = "none" \/ request.action \notin ALLOWED_ACTIONS
          THEN refused
          ELSE IF ~tab THEN refused
          ELSE [branch EXCEPT !.message = m])

\* background.js:705-708, 803-805   the listener of a chat-stream port: a
\* message whose action is fetchChatCompletion runs that branch, any other
\* message is dropped without an answer; neither ALLOWED_ACTIONS nor the
\* sender of the port is looked at
onPortMessage(p, msg, tab) ==
    LET m == [channel |-> "port", action |-> msg.action, tab |-> tab]
    IN  accept(p,
          IF msg.action = "fetchChatCompletion"
          THEN [fetchChatCompletion(msg.url, msg.key, msg.body)
                   EXCEPT !.message = m]
          ELSE [idleProc EXCEPT !.pc = "done", !.message = m])

\* the store the worker of SpecGate starts from: fetchModels and
\* chatCompletion are one call short of their limits
InitGate ==
    /\ clock = InitialClock
    /\ storage = [rateLimit |->
          [EmptyRateLimitData EXCEPT
              !.fetchModels = Burst(RATE_LIMITS.fetchModels.max - 1),
              !.chatCompletion = Burst(RATE_LIMITS.chatCompletion.max - 1)]]
    /\ admitted = storage.rateLimit
    /\ proc = [p \in Procs |-> idleProc]
    /\ nreq = 0
    /\ runtimeId = "A"
    /\ caller = noCaller

NextGate ==
    \/ \E p \in Procs, request \in Requests, tab \in BOOLEAN :
          onMessage(p, request, tab)
    \/ \E p \in Procs, msg \in Requests, tab \in BOOLEAN :
          onPortMessage(p, msg, tab)
    \/ \E p \in Procs : ScriptDone(p)
    \/ \E p \in Procs, iv \in IVs : EncryptApiKeySettled(p, iv)
    \/ \E p \in Procs : DecryptApiKeySettled(p)
    \/ \E p \in Procs : DecryptResolved(p)
    \/ \E p \in Procs : StorageGetResolved(p)
    \/ \E p \in Procs : StorageSetResolved(p)
    \/ \E p \in Procs : AfterCheckRateLimit(p)
    \/ \E p \in Procs, outcome \in FetchOutcomes : FetchSettled(p, outcome)
    \/ \E p \in Procs : StreamDone(p)

SpecGate == InitGate /\ [][NextGate]_vars

(***************************************************************************)
(* SpecToken: the way of a saved API key to the Authorization header.  The *)
(* search component reads the stored key, has the worker decrypt it        *)
(* (SpotlightSearch.svelte:321-344) and posts the answer as api_key on a   *)
(* chat-stream port (apis/index.js:105-110); the worker applies            *)
(* decryptApiKey to api_key (background.js:723-730) and sends the result   *)
(* as bearer token (line 759).                                             *)
(***************************************************************************)
TokenTexts ==
    {<<[c |-> "a", n |-> 1]>>,
     <<[c |-> "-", n |-> 1]>>,
     <<[c |-> "S", n |-> 1]>>,
     <<[c |-> "a", n |-> MinEncryptedLength]>>,
     <<[c |-> "=", n |-> MinEncryptedLength]>>,
     <<[c |-> "a", n |-> MinEncryptedLength - 1], [c |-> "=", n |-> 1]>>,
     <<[c |-> "a", n |-> MinEncryptedLength], [c |-> "-", n |-> 1]>>}

\* the keys the user saves: texts, and the string that encryptApiKey returned
\* for an earlier key (the stored value, pasted into the form)
Secrets ==
    {text(t) : t \in TokenTexts}
        \cup {encryptApiKey(text(<<[c |-> "a", n |-> 1]>>), "A", TRUE, iv).value :
                 iv \in IVs}

\* SpotlightSearch.svelte:112-133   what initHandler stores for the key
\* `secret`: the answer of encryptApiKey, or the key itself on {error}
savedKey(secret, iv) ==
    LET e == encryptApiKey(secret, "A", TRUE, iv)
    IN  IF e.threw THEN secret ELSE e.value

\* the store after the user saved url, key and model
InitToken ==
    /\ clock = 0
    /\ admitted = EmptyRateLimitData
    /\ proc = [p \in Procs |-> idleProc]
    /\ nreq = 0
    /\ runtimeId = "A"
    /\ \E secret \in Secrets, iv \in IVs :
          /\ caller = [noCaller EXCEPT !.secret = secret]
          /\ storage = [rateLimit |-> EmptyRateLimitData,
                        config |-> [url |-> "http",
                                    key |-> savedKey(secret, iv),
                                    model |-> "m"]]

\* the request of slot p was answered by the handler `kind`
answered(p, kind) == proc[p].pc = "done" /\ proc[p].kind = kind

\* SpotlightSearch.svelte:322-332   the follow-up handler reads the stored key
\* and sends it in a decryptApiKey message
FollowUpDecrypt(keyOk) == ReceiveDecryptApiKey(1, storage.config.key, keyOk)

\* typeof api_key as background.js:717 sees it
keyType(x) ==
    IF falsy(x) THEN "none" ELSE IF x.type = "string" THEN "string" ELSE "object"

\* SpotlightSearch.svelte:338, 362-370; apis/index.js:105-110   the answer
\* {decrypted} becomes currentKey and is posted as api_key on a new port; the
\* worker runs its fetchChatCompletion branch up to its await of decryptApiKey
PostFetchChatCompletion(keyOk) ==
    /\ answered(1, "decryptApiKey")
    /\ free(2)
    /\ nreq < MaxRequests
    /\ nreq' = nreq + 1
    /\ LET currentKey == proc[1].vault.output
       IN  proc' = [proc EXCEPT ![2] =
             [fetchChatCompletion("http", keyType(currentKey), "object")
                EXCEPT !.vault = [noVault EXCEPT !.input = currentKey,
                                                 !.keyOk = keyOk]]]
    /\ UNCHANGED <<clock, storage, admitted, caller, runtimeId>>

\* background.js:723-740   decryptApiKey(msg.api_key) settles: its value is
\* decryptedApiKey, the bearer token of line 759; the body is checked and
\* checkRateLimit is entered
DecryptBearer(p) ==
    /\ proc[p].pc = "decrypt"
    /\ proc[p].kind = "fetchChatCompletion"
    /\ LET v == proc[p].vault
           d == decryptApiKey(v.input, runtimeId, v.keyOk)
       IN  proc' = [proc EXCEPT ![p] =
             chatCheckRateLimit(
               [@ EXCEPT !.vault = [v EXCEPT !.output = d.value,
                                             !.threw = d.threw,
                                             !.keyDerived = d.keyDerived,
                                             !.id = runtimeId]])]
    /\ UNCHANGED <<clock, storage, admitted, nreq, caller, runtimeId>>

NextToken ==
    \/ \E keyOk \in BOOLEAN : FollowUpDecrypt(keyOk)
    \/ DecryptApiKeySettled(1)
    \/ \E keyOk \in BOOLEAN : PostFetchChatCompletion(keyOk)
    \/ DecryptBearer(2)
    \/ StorageGetResolved(2)
    \/ StorageSetResolved(2)
    \/ AfterCheckRateLimit(2)
    \/ \E outcome \in FetchOutcomes : FetchSettled(2, outcome)
    \/ StreamDone(2)

SpecToken == InitToken /\ [][NextToken]_vars

(***************************************************************************)
(* SpecPort: the chat-stream port (background.js:705-806).  The worker     *)
(* posts the chunks of the response body as it reads them; the requester   *)
(* may disconnect the port while the request is in flight                  *)
(* (apis/index.js:113, or its tab is closed).  SpecPortLive adds that     *)
(* storage operations complete, the fetch settles and the body ends.       *)
(***************************************************************************)
MaxChunks == 2     \* chunks read from one response body

chunkReply == [type |-> "chunk", waitTime |-> 0]

\* the chunks posted so far for the request of slot p
chunks(p) == Len(SelectSeq(proc[p].replies, LAMBDA m : m = chunkReply))

\* apis/index.js:113   the requester disconnects the port while the worker
\* fetches or streams; the worker has no onDisconnect listener
ClientDisconnect(p) ==
    /\ proc[p].kind = "fetchChatCompletion"
    /\ proc[p].pc \in {"fetch", "stream"}
    /\ proc[p].port = "open"
    /\ proc' = [proc EXCEPT ![p].port = "client"]
    /\ UNCHANGED <<clock, storage, admitted, nreq, caller, runtimeId>>

\* background.js:779-790   reader.read() resolves with a chunk:
\* port.postMessage({chunk, done: false}) and the next read; on a
\* disconnected port postMessage throws and readChunk ends in its catch
StreamChunk(p) ==
    /\ proc[p].pc = "stream"
    /\ chunks(p) < MaxChunks
    /\ proc' = [proc EXCEPT ![p] =
          IF @.port = "client" THEN finish(@, chunkReply)
          ELSE [@ EXCEPT !.replies = Append(@, chunkReply)]]
    /\ UNCHANGED <<clock, storage, admitted, nreq, caller, runtimeId>>

\* background.js:791-794   reader.read() rejects:
\* port.postMessage({error, done: true}), port.disconnect()
StreamFailed(p) ==
    /\ proc[p].pc = "stream"
    /\ proc' = [proc EXCEPT ![p] = finish(@, errorReply)]
    /\ UNCHANGED <<clock, storage, admitted, nreq, caller, runtimeId>>

\* the store the worker of SpecPort starts from: chatCompletion is one call
\* short of its limit
InitPort ==
    /\ clock = InitialClock
    /\ storage = [rateLimit |->
          [EmptyRateLimitData EXCEPT
              !.chatCompletion = Burst(RATE_LIMITS.chatCompletion.max - 1)]]
    /\ admitted = storage.rateLimit
    /\ proc = [p \in Procs |-> idleProc]
    /\ nreq = 0
    /\ runtimeId = "A"
    /\ caller = noCaller

\* the steps of the worker for the request of slot p after its receipt
PortProgress(p) ==
    \/ DecryptResolved(p)
    \/ StorageGetResolved(p)
    \/ StorageSetResolved(p)
    \/ AfterCheckRateLimit(p)
    \/ \E outcome \in FetchOutcomes : FetchSettled(p, outcome)
    \/ StreamDone(p)
    \/ StreamFailed(p)

NextPort ==
    \/ \E p \in Procs, url \in Urls, key \in Keys, body \in Bodies :
          ReceiveFetchChatCompletion(p, url, key, body)
    \/ \E p \in Procs : PortProgress(p)
    \/ \E p \in Procs : StreamChunk(p)
    \/ \E p \in Procs : ClientDisconnect(p)

SpecPort == InitPort /\ [][NextPort]_vars

SpecPortLive == SpecPort /\ \A p \in Procs : WF_vars(PortProgress(p))

(***************************************************************************)
(* Properties                                                              *)
(***************************************************************************)
Handlers == {"fetchModels", "fetchChatCompletion"}

\* the calls of `log` that lie in the window that ends at `now`
inWindow(log, now, lim) ==
    Cardinality({i \in DOMAIN log : log[i] <= now /\ now - log[i] < lim.window})

\* the oldest stored request of action type c that lies in the window
oldestInWindow(c, now) ==
    LET ts == {storage.rateLimit[c][i] : i \in DOMAIN storage.rateLimit[c]}
        in == {t \in ts : now - t < limit(c).window}
    IN  CHOOSE t \in in : \A u \in in : t <= u

returned(p) == proc[p].pc \in {"ret", "done"}

\* C1: with calls that run one after the other and storage that works, no
\* window of window(c) ms that ends at an admitted call holds more than max(c)
\* admitted calls; a call is admitted exactly when fewer than max(c) calls
\* were admitted in the window before it; and with fetchModels the first 5
\* calls inside one window are admitted and the 6th is rejected.
C1_SequentialCap ==
    /\ \A c \in Categories : \A i \in DOMAIN admitted[c] :
          inWindow(admitted[c], admitted[c][i], limit(c)) <= limit(c).max
    /\ returned(1) =>
          LET c      == proc[1].actionType
              before == inWindow(admitted[c], proc[1].now, limit(c))
                        - (IF proc[1].result.allowed THEN 1 ELSE 0)
          IN  proc[1].result.allowed <=> before < limit(c).max
    /\ (returned(1) /\ caller.actionType = "fetchModels"
            /\ proc[1].now < RATE_LIMITS.fetchModels.window) =>
          /\ nreq <= 5 => proc[1].result.allowed
          /\ nreq = 6 => ~proc[1].result.allowed

C1_Witness ==
    /\ caller.actionType = "fetchModels"
    /\ caller.gap = 1000
    /\ proc[1].pc = "done"
    /\ nreq = 6
    /\ ~proc[1].result.allowed
    /\ admitted.fetchModels = <<0, 1000, 2000, 3000, 4000>>

\* C2: under every interleaving of the storage reads and writes of calls in
\* flight at the same time, no window holds more than max(c) calls that
\* checkRateLimit admitted.
C2_NoOverAdmission ==
    \A c \in Categories : \A i \in DOMAIN admitted[c] :
        inWindow(admitted[c], admitted[c][i], limit(c)) <= limit(c).max

\* C3: a step in which a call of checkRateLimit ends rejected leaves the whole
\* store as it was.
C3_RejectedNotRecorded ==
    [][\A p \in Procs :
          (proc[p].pc \in {"get", "set"} /\ proc'[p].pc = "ret"
              /\ ~proc'[p].result.allowed) => storage' = storage]_vars

C3_Witness ==
    \E p \in Procs :
        /\ proc[p].pc = "ret"
        /\ proc[p].actionType = "fetchModels"
        /\ ~proc[p].result.allowed
        /\ Len(storage.rateLimit.fetchModels) = RATE_LIMITS.fetchModels.max

\* C4 as claimed: whenever checkRateLimit returns allowed:true, the timestamp
\* of the call is in the stored sequence of its action type.
C4_AllowedIsStored ==
    \A p \in Procs :
        (proc[p].pc = "ret" /\ proc[p].result.allowed) =>
            \E i \in DOMAIN storage.rateLimit[proc[p].actionType] :
                storage.rateLimit[proc[p].actionType][i] = proc[p].now

\* C4 as amended: whenever checkRateLimit returns allowed:true and no storage
\* operation of the call failed, a storage.set whose sequence for the action
\* type holds the timestamp of the call has completed.
C4_AllowedWasWritten ==
    \A p \in Procs :
        (proc[p].pc = "ret" /\ proc[p].result.allowed /\ ~proc[p].failed) =>
            proc[p].persisted

C4_Witness ==
    \E p \in Procs :
        /\ proc[p].pc = "ret"
        /\ proc[p].result.allowed
        /\ ~proc[p].failed
        /\ proc[p].persisted
        /\ proc[p].actionType = "fetchModels"

\* C5: a call whose storage.get or storage.set failed returns {allowed: true}.
C5_FailOpen ==
    \A p \in Procs :
        proc[p].failed => (proc[p].pc = "ret" /\ proc[p].result = Allowed)

C5_Witness ==
    \E p, q \in Procs :
        /\ proc[p].failed /\ proc[p].actionType = "chatCompletion"
        /\ proc[p].pc = "ret" /\ proc[p].result = Allowed
        /\ proc[q].failed /\ proc[q].actionType = "other"
        /\ proc[q].rateLimitData.other # << >>

\* C6: a fetch is issued only after checkRateLimit returned allowed:true for
\* the request.
C6_FetchAfterRateCheck ==
    \A p \in Procs : proc[p].pc = "fetch" => proc[p].checked

\* C7 as claimed: for fetchModels and fetchChatCompletion, decryptApiKey is
\* not invoked before checkRateLimit has admitted the request.
C7_AdmissionBeforeDecrypt ==
    \A p \in Procs :
        (proc[p].kind \in Handlers /\ proc[p].decrypted) => proc[p].checked

\* C7 as amended: for fetchModels and fetchChatCompletion, decryptApiKey has
\* been invoked on the supplied key when checkRateLimit is called, so also
\* when the call is rejected; no fetch has been issued by then.
C7_DecryptBeforeAdmission ==
    \A p \in Procs :
        (proc[p].kind \in Handlers /\ proc[p].pc \in {"get", "set", "ret"}) =>
            /\ proc[p].request.key = "string" => proc[p].decrypted
            /\ ~proc[p].fetched

C7_Witness ==
    \E p \in Procs :
        /\ proc[p].kind = "fetchModels"
        /\ proc[p].pc = "ret"
        /\ ~proc[p].result.allowed
        /\ proc[p].decrypted

\* C8: the step that follows a rejected rate check of fetchModels or
\* fetchChatCompletion ends the request with one reply, the rate limit error
\* with the wait in seconds (at least 1), issues no fetch and leaves the
\* store as it was.
C8_RejectionReply ==
    [][\A p \in Procs :
          (proc[p].pc = "ret" /\ proc[p].kind \in Handlers
              /\ ~proc[p].result.allowed /\ proc'[p] # proc[p]) =>
            /\ proc'[p].pc = "done"
            /\ proc'[p].replies = <<rateLimitReply(proc[p].result.waitTime)>>
            /\ proc[p].result.waitTime >= 1
            /\ ~proc'[p].fetched
            /\ storage' = storage]_vars

\* a request was rejected and answered, and a later request was admitted
C8_Witness ==
    /\ proc[1].pc = "done"
    /\ proc[1].replies = <<rateLimitReply(60)>>
    /\ ~proc[1].fetched
    /\ proc[2].kind = "fetchModels"
    /\ proc[2].pc = "fetch"
    /\ proc[2].checked

\* C9: when the call before this one was rejected at time `at` with wait w
\* and this call is made at or after at + 1000 * w, this call is allowed.
C9_RetryAfterWait ==
    (returned(1) /\ caller.rejected.waitTime > 0
        /\ proc[1].now >= caller.at + 1000 * caller.rejected.waitTime)
    => proc[1].result.allowed

C9_Witness ==
    /\ proc[1].pc = "done"
    /\ caller.actionType = "fetchModels"
    /\ caller.rejected.waitTime = 55
    /\ caller.at = 5000
    /\ proc[1].now = 60000
    /\ proc[1].result.allowed

\* C10: the wait of a rejected call is the least number of seconds w with
\* 1000 * w >= window - (now - oldest stored request in the window), it lies
\* between 1 and window / 1000, and of chatCompletion calls made at
\* 0, 1, ..., 9, 10 ms the first ten are allowed, the eleventh is rejected
\* with wait 60, and a twelfth at 60010 ms is allowed.
C10_WaitSeconds ==
    /\ (returned(1) /\ ~proc[1].result.allowed) =>
          LET c == proc[1].actionType
              w == proc[1].result.waitTime
              x == limit(c).window - (proc[1].now - oldestInWindow(c, proc[1].now))
          IN  /\ 1000 * (w - 1) < x
              /\ x <= 1000 * w
              /\ 1 <= w
              /\ 1000 * w <= limit(c).window
    /\ (returned(1) /\ caller.actionType = "chatCompletion" /\ caller.gap = 1) =>
          /\ nreq <= 10 => proc[1].result.allowed
          /\ (nreq = 11 /\ proc[1].now = 10) =>
                proc[1].result = Rejected(60)
          /\ (nreq = 12 /\ proc[1].now = 60010) => proc[1].result.allowed

C10_Witness ==
    /\ caller.actionType = "chatCompletion"
    /\ caller.gap = 1
    /\ nreq = 12
    /\ proc[1].pc = "done"
    /\ proc[1].now = 60010
    /\ proc[1].result.allowed
    /\ caller.rejected = Rejected(60)
    /\ caller.at = 10

\* the timestamps of the list `requests`
stamps(requests) == {requests[i] : i \in DOMAIN requests}

\* C11: when the stored list of an action type is full with oldest request
\* t0 and checkRateLimit is called at t0 + window + 1, the call is allowed
\* and the list it stores no longer holds t0.
C11_WindowSlides ==
    [][/\ (proc[1].pc = "get" /\ proc'[1].pc # "get") =>
            LET c == proc[1].actionType
                s == storage.rateLimit[c]
            IN  (Len(s) = limit(c).max
                    /\ proc[1].now = s[1] + limit(c).window + 1) =>
                  /\ proc'[1].result.allowed
                  /\ s[1] \notin stamps(proc'[1].rateLimitData[c])
       /\ (proc[1].pc = "set" /\ proc'[1].pc = "ret") =>
            LET c == proc[1].actionType
            IN  \A t \in stamps(storage'.rateLimit[c]) :
                    proc[1].now - t < limit(c).window]_vars

C11_Witness ==
    /\ caller.actionType = "fetchModels"
    /\ caller.gap = 1000
    /\ proc[1].pc = "done"
    /\ proc[1].now = RATE_LIMITS.fetchModels.window + 1
    /\ proc[1].result.allowed
    /\ storage.rateLimit.fetchModels = <<1000, 2000, 3000, 4000, 60001>>

\* C12 as claimed: a stored timestamp t counts toward the limit exactly when
\* now - t <= window: the call is allowed exactly when fewer than max stored
\* timestamps have now - t <= window.
C12_CountsAtWindowAge ==
    [][(proc[1].pc = "get" /\ proc'[1].pc # "get") =>
          LET c == proc[1].actionType
              s == storage.rateLimit[c]
              counted == {i \in DOMAIN s :
                            proc[1].now - s[i] <= limit(c).window}
          IN  proc'[1].result.allowed <=>
                  Cardinality(counted) < limit(c).max]_vars

\* C12 as amended: a stored timestamp t counts toward the limit exactly when
\* now - t < window (a request whose age is exactly the window is dropped):
\* the call is allowed exactly when fewer than max stored timestamps have
\* now - t < window, and an allowed call stores exactly those and its own.
C12_CountsBelowWindowAge ==
    [][(proc[1].pc = "get" /\ proc'[1].pc # "get") =>
          LET c == proc[1].actionType
              s == storage.rateLimit[c]
              counted == {i \in DOMAIN s :
                            proc[1].now - s[i] < limit(c).window}
          IN  /\ proc'[1].result.allowed <=>
                    Cardinality(counted) < limit(c).max
              /\ proc'[1].result.allowed =>
                    /\ Len(proc'[1].rateLimitData[c]) = Cardinality(counted) + 1
                    /\ stamps(proc'[1].rateLimitData[c]) =
                          {s[i] : i \in counted} \cup {proc[1].now}]_vars

\* the stored requests are exactly one window old and the call is allowed
C12_Witness ==
    /\ caller.actionType = "fetchModels"
    /\ caller.gap = 0
    /\ proc[1].pc = "set"
    /\ proc[1].now = RATE_LIMITS.fetchModels.window
    /\ storage.rateLimit.fetchModels = <<0, 0, 0, 0, 0>>
    /\ proc[1].result.allowed
    /\ proc[1].rateLimitData.fetchModels = <<60000>>

\* C13: a call made after the worker was restarted is admitted exactly when
\* fewer than max calls were admitted in the window before it, restart or
\* not; after 5 fetchModels calls and a restart the 6th call inside the
\* window is rejected.
C13_SurvivesRestart ==
    (returned(1) /\ caller.restarted) =>
        LET c      == proc[1].actionType
            before == inWindow(admitted[c], proc[1].now, limit(c))
                      - (IF proc[1].result.allowed THEN 1 ELSE 0)
        IN  /\ proc[1].result.allowed <=> before < limit(c).max
            /\ (c = "fetchModels" /\ nreq = 6
                  /\ proc[1].now < RATE_LIMITS.fetchModels.window) =>
                  ~proc[1].result.allowed

C13_Witness ==
    /\ caller.actionType = "fetchModels"
    /\ caller.gap = 1000
    /\ caller.restarted
    /\ nreq = 6
    /\ proc[1].pc = "done"
    /\ proc[1].now = 5000
    /\ proc[1].result = Rejected(55)

\* C14: a timestamp leaves the stored list of an action type only in the
\* write of a checkRateLimit call for that action type at whose `now` the
\* timestamp is at least window ms old; no other step of the extension, a
\* configuration reset included, removes a stored timestamp.
C14_OnlyPruningRemoves ==
    [][\A c \in Categories :
          \A t \in stamps(storage.rateLimit[c]) \ stamps(storage'.rateLimit[c]) :
              \E p \in Procs :
                  /\ proc[p].pc = "set"
                  /\ proc'[p].pc = "ret"
                  /\ proc[p].actionType = c
                  /\ proc[p].now - t >= limit(c).window]_vars

\* C15: the step in which storage.set({url, key, model}) resolves leaves the
\* stored rateLimit value as it was, and the steps in which a checkRateLimit
\* call reads, writes and returns leave the stored url, key and model as they
\* were, whatever else is in flight.
C15_DisjointKeys ==
    [][\A p \in Procs :
          /\ (proc[p].pc = "save" /\ proc'[p].pc # "save") =>
                /\ storage'.rateLimit = storage.rateLimit
                /\ storage'.config = savedConfig(p)
          /\ (proc[p].pc \in {"get", "set"} /\ proc'[p].pc = "ret") =>
                storage'.config = storage.config]_vars

\* a configuration was saved while a call was in flight, and both are stored
C15_Witness ==
    /\ storage.config = [url |-> "http", key |-> "encrypted", model |-> "m"]
    /\ proc[1].pc = "done"
    /\ proc[1].replies = <<encryptedReply>>
    /\ proc[2].pc = "ret"
    /\ proc[2].actionType = "fetchModels"
    /\ proc[2].persisted
    /\ proc[2].rateLimitData.fetchModels = storage.rateLimit.fetchModels
    /\ Len(storage.rateLimit.fetchModels) = RATE_LIMITS.fetchModels.max

\* the stored list of own key c of the rateLimit record
storedUnder(c) ==
    IF c \in DOMAIN storage.rateLimit THEN storage.rateLimit[c] ELSE << >>

\* C16: of the calls for an action type that is not in RATE_LIMITS, made one
\* after the other inside one window, the first 20 are allowed and the 21st
\* is rejected; the timestamp of every allowed call is stored under the
\* action type's own name, and nothing is stored under "general".
C16_DefaultBudget ==
    (returned(1) /\ caller.actionType \notin DOMAIN RATE_LIMITS
        /\ proc[1].now < RATE_LIMITS.general.window) =>
      /\ nreq <= RATE_LIMITS.general.max => proc[1].result.allowed
      /\ nreq = RATE_LIMITS.general.max + 1 => ~proc[1].result.allowed
      /\ proc[1].result.allowed =>
            proc[1].now \in stamps(storedUnder(caller.actionType))
      /\ storage.rateLimit.general = << >>

\* no unpaired surrogate
wellFormed(runs) == \A i \in DOMAIN runs : runs[i].c # "S"

\* iv, ciphertext and tag fit into one argument list
fits(runs) ==
    IvLength + byteLength(encode(runs)) + TagLength <= MaxSpreadArguments

C18_DecryptTotal ==
    \A p \in Procs :
        answered(p, "decryptApiKey") =>
            /\ ~proc[p].vault.threw
            /\ proc[p].replies = <<decryptedReply>>
            /\ \/ proc[p].vault.output = proc[p].vault.input
               \/ /\ proc[p].vault.input.form = "base64"
                  /\ proc[p].vault.output = decode(proc[p].vault.input.box.bytes)

\* twenty "=" pass the legacy test and atob throws on them
C18_Witness ==
    /\ answered(1, "decryptApiKey")
    /\ proc[1].vault.input = text(<<[c |-> "=", n |-> 20]>>)
    /\ proc[1].vault.keyDerived
    /\ proc[1].vault.output = proc[1].vault.input
    /\ proc[1].replies = <<decryptedReply>>

\* C19: for a string shorter than 20 characters or with a character outside
\* the base64 alphabet, decryptApiKey returns the string itself and does not
\* call getEncryptionKey.
C19_LegacyPassThrough ==
    \A p \in Procs :
        (answered(p, "decryptApiKey")
            /\ proc[p].vault.input.type = "string"
            /\ proc[p].vault.input.form = "runs"
            /\ \/ units(proc[p].vault.input.runs) < 20
               \/ \E i \in DOMAIN proc[p].vault.input.runs :
                      proc[p].vault.input.runs[i].c \notin {"a", "="}) =>
            /\ proc[p].vault.output = proc[p].vault.input
            /\ ~proc[p].vault.keyDerived
            /\ ~proc[p].vault.threw

C19_Witness ==
    /\ answered(1, "decryptApiKey")
    /\ proc[1].vault.input =
          text(<<[c |-> "a", n |-> 20], [c |-> "-", n |-> 1]>>)
    /\ proc[1].vault.output = proc[1].vault.input
    /\ ~proc[1].vault.keyDerived

\* C20: for the string of an encryption whose ciphertext region was altered
\* or that was made under another installation identity, decryptApiKey
\* returns that string itself and does not throw.
C20_FailedAuthentication ==
    \A p \in Procs :
        (answered(p, "decryptApiKey")
            /\ proc[p].vault.input.form = "base64"
            /\ \/ proc[p].vault.input.tampered
               \/ proc[p].vault.input.box.id # proc[p].vault.id) =>
            /\ proc[p].vault.output = proc[p].vault.input
            /\ proc[p].vault.output # decode(proc[p].vault.input.box.bytes)
            /\ ~proc[p].vault.threw

\* a key encrypted under identity A is decrypted under identity B
C20_Witness ==
    /\ answered(1, "decryptApiKey")
    /\ proc[1].vault.keyOk
    /\ proc[1].vault.keyDerived
    /\ proc[1].vault.input.form = "base64"
    /\ ~proc[1].vault.input.tampered
    /\ proc[1].vault.input.box.id = "A"
    /\ proc[1].vault.id = "B"
    /\ proc[1].vault.output = proc[1].vault.input

\* the installation identity was not available to the call of slot p, or its
\* key derivation failed
noIdentity(p) == proc[p].vault.id = "undefined" \/ ~proc[p].vault.keyOk

\* C21: when the installation identity is unavailable, key derivation fails,
\* and a call whose key derivation fails ends in an error: encryptApiKey of a
\* non-empty string and decryptApiKey of a string of ciphertext shape both
\* throw, their handlers answer {error}, and no value is handed to the caller.
C21_KeyDerivationFatal ==
    \A p \in Procs :
        /\ (answered(p, "encryptApiKey") /\ noIdentity(p)
              /\ proc[p].vault.input.type = "string"
              /\ ~falsy(proc[p].vault.input)) =>
                /\ proc[p].vault.threw
                /\ proc[p].replies = <<errorReply>>
                /\ proc[p].vault.output = NoValue
        /\ (answered(p, "decryptApiKey") /\ noIdentity(p)
              /\ proc[p].vault.input.type = "string"
              /\ ~falsy(proc[p].vault.input)
              /\ ~looksUnencrypted(proc[p].vault.input)) =>
                /\ proc[p].vault.threw
                /\ proc[p].replies = <<errorReply>>
                /\ proc[p].vault.output = NoValue

\* C22: a call of encryptApiKey either throws or returns the base64 string of
\* the 12-byte iv followed by the ciphertext and tag of the whole plaintext,
\* sealed under that iv and the key of the installation; it throws for an
\* empty or non-string argument and when the key derivation fails; the handler
\* answers once, {error} when the call threw and {encrypted} otherwise.
C22_EncryptAllOrNothing ==
    \A p \in Procs :
        answered(p, "encryptApiKey") =>
            LET v == proc[p].vault
            IN  /\ (falsy(v.input) \/ v.input.type # "string" \/ ~v.keyOk) =>
                      v.threw
                /\ v.threw =>
                      /\ proc[p].replies = <<errorReply>>
                      /\ v.output = NoValue
                /\ ~v.threw =>
                      /\ proc[p].replies = <<encryptedReply>>
                      /\ v.output.type = "string"
                      /\ v.output.form = "base64"
                      /\ v.output.iv \in IVs
                      /\ v.output.box =
                            [id |-> v.id, iv |-> v.output.iv,
                             bytes |-> encode(v.input.runs)]
                      /\ ~v.output.tampered
                      /\ length(v.output) =
                            4 * ((IvLength + byteLength(encode(v.input.runs))
                                    + TagLength + 2) \div 3)

\* one key was encrypted and stored, the next call failed to derive its key
C22_Witness ==
    /\ answered(1, "encryptApiKey")
    /\ proc[1].vault.input = text(<<[c |-> "a", n |-> 20]>>)
    /\ ~proc[1].vault.keyOk
    /\ proc[1].vault.threw
    /\ proc[1].replies = <<errorReply>>
    /\ storage.config.key.form = "base64"
    /\ length(storage.config.key) = 64

\* C23: the value stored under `key` is an output of encryptApiKey, never the
\* key as the user typed it; when the encryption failed, the store is left as
\* it was.
C23_EncryptedBeforeStorage ==
    /\ storage.config.key = NoValue \/ storage.config.key.form = "base64"
    /\ \A p \in Procs :
          (answered(p, "encryptApiKey") /\ proc[p].vault.threw
              /\ proc[p].vault.input.type = "string"
              /\ ~falsy(proc[p].vault.input)) =>
              storage.config.key # proc[p].vault.input

validated(m) == m.action # "none" /\ m.action \in ALLOWED_ACTIONS /\ m.tab

\* C25: a message, one-shot or on a port, whose action is missing or not in
\* ALLOWED_ACTIONS or whose sender has no tab id is answered with one error
\* reply and nothing else happens for it: no script runs, encryptApiKey and
\* decryptApiKey are not called, no rate check is entered, no fetch is issued.
C25_ValidatedFirst ==
    \A p \in Procs :
        (proc[p].message.channel # "none" /\ ~validated(proc[p].message)) =>
            /\ proc[p].pc = "done"
            /\ proc[p].replies = <<errorReply>>
            /\ proc[p].kind = "none"
            /\ ~proc[p].decrypted
            /\ ~proc[p].fetched
            /\ proc[p].vault = noVault

\* C26: in every reachable state, with checks that overlap and storage
\* operations that fail included, the stored list of every action type has at
\* most max entries (20 for a type outside RATE_LIMITS), and so has every list
\* a call is about to write.
C26_BoundedLists ==
    \A c \in Categories :
        /\ Len(storage.rateLimit[c]) <= limit(c).max
        /\ c \notin DOMAIN RATE_LIMITS => limit(c).max = 20
        /\ \A p \in Procs :
              proc[p].pc = "set" => Len(proc[p].rateLimitData[c]) <= limit(c).max

\* two overlapping fetchModels calls were both admitted on a list of 4: six
\* calls are admitted in the window and the stored list holds 5
C26_Witness ==
    /\ Len(admitted.fetchModels) = RATE_LIMITS.fetchModels.max + 1
    /\ Len(storage.rateLimit.fetchModels) = RATE_LIMITS.fetchModels.max
    /\ \A p \in Procs : proc[p].pc = "ret" /\ proc[p].result.allowed
    /\ Len(storage.rateLimit.chatCompletion) = RATE_LIMITS.chatCompletion.max

\* C27: the write of a checkRateLimit call for one action type leaves the
\* stored list of every other action type as it was, also when a call for
\* another type is in flight.
C27_CategoriesIndependent ==
    [][\A p \in Procs :
          (proc[p].pc = "set" /\ proc'[p].pc = "ret") =>
              \A c \in Categories \ {proc[p].actionType} :
                  storage'.rateLimit[c] = storage.rateLimit[c]]_vars

\* the list is in non-decreasing order
sorted(requests) ==
    \A i, j \in DOMAIN requests : i < j => requests[i] <= requests[j]

\* C28: the stored list of every action type is in non-decreasing order in
\* every reachable state, overlapping checks included, so its first element
\* is its oldest.
C28_StoredListSorted ==
    \A c \in Categories :
        /\ sorted(storage.rateLimit[c])
        /\ storage.rateLimit[c] # << >> =>
              \A t \in stamps(storage.rateLimit[c]) : storage.rateLimit[c][1] <= t

\* C29: the bearer token equals the key the user saved: for every non-empty
\* saved key s, with a working key derivation and an unchanged identity,
\* decryptApiKey applied by the worker to what decryptApiKey returned to the
\* component for the stored encryptApiKey(s) yields s, and leaves the value it
\* is applied to as it is.
C29_BearerIsSavedSecret ==
    (answered(1, "decryptApiKey") /\ proc[1].vault.keyOk
        /\ proc[2].kind = "fetchChatCompletion"
        /\ proc[2].pc \in {"get", "set", "ret"}
        /\ proc[2].vault.keyOk
        /\ proc[2].vault.input = proc[1].vault.output) =>
            /\ proc[2].vault.output = caller.secret
            /\ proc[2].vault.output = proc[2].vault.input

\* the request of slot p is with the worker
inFlight(p) == proc[p].pc \notin {"idle", "done"}

\* a terminal message: {done: true} or {error}
terminal(m) == m.type \in {"done", "error", "rate limit"}

\* zero or more chunks followed by exactly one terminal message
chunksThenTerminal(replies) ==
    /\ replies # << >>
    /\ terminal(replies[Len(replies)])
    /\ \A i \in 1..(Len(replies) - 1) : replies[i] = chunkReply

\* C30: for every fetchChatCompletion request the worker posts zero or more
\* chunks and then exactly one terminal message, after which the request is
\* over and nothing more is posted; and every request in flight leads to its
\* terminal message, also when the validation fails, the rate limiter
\* rejects, the fetch fails or the requester disconnects.
C30_PortProtocol ==
    /\ [](\A p \in Procs :
            /\ inFlight(p) => \A i \in DOMAIN proc[p].replies :
                                  proc[p].replies[i] = chunkReply
            /\ proc[p].pc = "done" => chunksThenTerminal(proc[p].replies))
    /\ \A p \in Procs :
          inFlight(p) ~>
              (proc[p].pc = "done" /\ chunksThenTerminal(proc[p].replies))

====
